---- MODULE Spec2Model ----
(***************************************************************************)
(* A model of utils.py of certified-removal: the vectorization helpers,    *)
(* gradient clipping, noise injection, the full-dataset gradient, feature  *)
(* extraction and per-example gradient extraction.                         *)
(*                                                                         *)
(* A tensor is a record [shape, data]: shape is the sequence of dimension  *)
(* sizes (<<>> for a 0-dim tensor) and data the elements in row-major      *)
(* order.  A call that raises is the record [ok |-> FALSE, err |-> ...];   *)
(* a call that returns is [ok |-> TRUE, val |-> ...].                      *)
(***************************************************************************)
EXTENDS Integers, Sequences, FiniteSets, TLC

VARIABLES
    pc,             \* position in the function being run
    out,            \* value returned by the function being run
    parameters,     \* argument of the vectorization helpers
    vec,            \* flattened vector / matrix
    gradients,      \* list of per-example gradient tensors
    C,              \* clipping bound
    grad_vec,       \* clip_and_sum_gradients: the (N, total) matrix;
                    \* add_noisy_gradient: the aggregate gradient vector
    grad_norm,      \* per-example L2 norms
    multiplier,     \* per-example scale factors
    extr,           \* the extractor: its parameters, each [shape, grad]
    clf,            \* the classifier: its parameters, each [shape, grad]
    std,            \* noise multiplier
    include_linear, \* whether the classifier takes part
    model,          \* compute_full_grad: parameters, each [shape, data, grad]
    data_loader,    \* the batches of the data stream
    batch_idx,      \* batches consumed so far
    lam,            \* L2 regularization coefficient
    full_grad,      \* compute_full_grad: the running weighted sum
    features,       \* extract_features: features collected so far
    labels,         \* extract_features: labels collected so far
    x,              \* per_example_gradient: the batch
    entry           \* history: the gradient buffers as the call found them

vars == <<pc, out, parameters, vec, gradients, C, grad_vec, grad_norm,
          multiplier, extr, clf, std, include_linear, model, data_loader,
          batch_idx, lam, full_grad, features, labels, x, entry>>

\* the variables each function leaves alone
vecIdle == <<gradients, C, grad_vec, grad_norm, multiplier, extr, clf, std,
             include_linear, model, data_loader, batch_idx, lam, full_grad,
             features, labels, x, entry>>
clipIdle == <<parameters, vec, extr, clf, std, include_linear, model,
              data_loader, batch_idx, lam, full_grad, features, labels, x, entry>>
noiseIdle == <<parameters, vec, gradients, grad_norm, multiplier, model,
               data_loader, batch_idx, lam, full_grad, features, labels, x, entry>>
fullIdle == <<parameters, vec, gradients, C, grad_vec, grad_norm, multiplier,
              extr, clf, std, include_linear, features, labels, x>>
extractIdle == <<parameters, vec, gradients, C, grad_vec, grad_norm,
                 multiplier, extr, clf, std, include_linear, model, lam,
                 full_grad, x, entry>>
pegIdle == <<parameters, vec, C, grad_vec, grad_norm, multiplier, clf, std,
             model, data_loader, batch_idx, lam, full_grad, features, labels>>

Unused == "unused"

VecIdle ==
    /\ entry = Unused
    /\ gradients = Unused /\ C = Unused /\ grad_vec = Unused
    /\ grad_norm = Unused /\ multiplier = Unused /\ extr = Unused
    /\ clf = Unused /\ std = Unused /\ include_linear = Unused
    /\ model = Unused /\ data_loader = Unused /\ batch_idx = Unused
    /\ lam = Unused /\ full_grad = Unused /\ features = Unused
    /\ labels = Unused /\ x = Unused
ClipIdle ==
    /\ entry = Unused
    /\ parameters = Unused /\ vec = Unused /\ extr = Unused /\ clf = Unused
    /\ std = Unused /\ include_linear = Unused /\ model = Unused
    /\ data_loader = Unused /\ batch_idx = Unused /\ lam = Unused
    /\ full_grad = Unused /\ features = Unused /\ labels = Unused
    /\ x = Unused
NoiseIdle ==
    /\ entry = Unused
    /\ parameters = Unused /\ vec = Unused /\ gradients = Unused
    /\ grad_norm = Unused /\ multiplier = Unused /\ model = Unused
    /\ data_loader = Unused /\ batch_idx = Unused /\ lam = Unused
    /\ full_grad = Unused /\ features = Unused /\ labels = Unused
    /\ x = Unused
FullIdle ==
    /\ parameters = Unused /\ vec = Unused /\ gradients = Unused
    /\ C = Unused /\ grad_vec = Unused /\ grad_norm = Unused
    /\ multiplier = Unused /\ extr = Unused /\ clf = Unused /\ std = Unused
    /\ include_linear = Unused /\ features = Unused /\ labels = Unused
    /\ x = Unused
ExtractIdle ==
    /\ entry = Unused
    /\ parameters = Unused /\ vec = Unused /\ gradients = Unused
    /\ C = Unused /\ grad_vec = Unused /\ grad_norm = Unused
    /\ multiplier = Unused /\ extr = Unused /\ clf = Unused /\ std = Unused
    /\ include_linear = Unused /\ model = Unused /\ lam = Unused
    /\ full_grad = Unused /\ x = Unused
PegIdle ==
    /\ parameters = Unused /\ vec = Unused /\ C = Unused /\ grad_vec = Unused
    /\ grad_norm = Unused /\ multiplier = Unused /\ clf = Unused
    /\ std = Unused /\ model = Unused /\ data_loader = Unused
    /\ batch_idx = Unused /\ lam = Unused /\ full_grad = Unused
    /\ features = Unused /\ labels = Unused

(***************************************************************************)
(* Bounds                                                                  *)
(***************************************************************************)
MaxParams == 2      \* tensors in a parameter / gradient list
MaxN == 3           \* examples in a batch
MaxC == 4           \* the clipping bounds tried are 1/2, 2/2, ..., MaxC/2
MaxLen == 5         \* length of the aggregate gradient vector
MaxStd == 1         \* noise multiplier
MaxBatches == 2     \* batches compute_full_grad goes through
MaxStream == 3      \* batches extract_features goes through
MaxBatch == 2       \* examples in one batch of a data stream
MaxLam == 2         \* regularization coefficient
MaxWidth == 2       \* features the extractor produces per example
MaxAccum == 3       \* batch gradients a buffer accumulates before the calls
                    \* of per_example_gradient stop

(***************************************************************************)
(* Tensors                                                                 *)
(***************************************************************************)
RECURSIVE Prod(_)
Prod(s) == IF s = <<>> THEN 1 ELSE Head(s) * Prod(Tail(s))

RECURSIVE SumSeq(_)
SumSeq(s) == IF s = <<>> THEN 0 ELSE Head(s) + SumSeq(Tail(s))

RECURSIVE Concat(_)
Concat(ss) == IF ss = <<>> THEN <<>> ELSE Head(ss) \o Concat(Tail(ss))

Numel(t) == Len(t.data)

Ok(v) == [ok |-> TRUE, val |-> v]
Raise(e) == [ok |-> FALSE, err |-> e]

\* t.view(shape): the same elements under another shape; raises when the
\* element counts differ
View(t, shape) ==
    IF Prod(shape) = Numel(t)
    THEN Ok([shape |-> shape, data |-> t.data])
    ELSE Raise("RuntimeError")

\* t.view(rows, -1): raises when rows does not divide the element count
ViewRows(t, rows) ==
    IF rows > 0 /\ Numel(t) % rows = 0
    THEN Ok([shape |-> <<rows, Numel(t) \div rows>>, data |-> t.data])
    ELSE Raise("RuntimeError")

\* t.squeeze(): every dimension of size 1 is removed
Squeeze(t) == [shape |-> SelectSeq(t.shape, LAMBDA d : d # 1), data |-> t.data]

\* row r of a 2-dim tensor
Row(t, r) == SubSeq(t.data, (r - 1) * t.shape[2] + 1, r * t.shape[2])

\* torch.cat(ts, dim=1) of 2-dim tensors with the same number of rows
CatDim1(ts) ==
    LET rows == ts[1].shape[1]
        cols == SumSeq([k \in 1..Len(ts) |-> ts[k].shape[2]])
    IN  [shape |-> <<rows, cols>>,
         data |-> Concat([r \in 1..rows |->
                     Concat([k \in 1..Len(ts) |-> Row(ts[k], r)])])]

Min(a, b) == IF a < b THEN a ELSE b

(***************************************************************************)
(* params_to_vec / vec_to_params                                           *)
(***************************************************************************)
\* params_to_vec(parameters): every tensor viewed as (1, -1), concatenated
\* along dim 1, and the result squeezed
params_to_vec(ps) ==
    Squeeze(CatDim1([k \in 1..Len(ps) |-> ViewRows(ps[k], 1).val]))

\* vec[:size] of a tensor: a 0-dim tensor cannot be sliced
SliceTo(v, size) ==
    IF v.shape = <<>> THEN Raise("IndexError")
    ELSE LET n == Min(size, Numel(v))
         IN  Ok([shape |-> <<n>>, data |-> SubSeq(v.data, 1, n)])

\* vec[size:] of a 1-dim tensor
SliceFrom(v, size) ==
    LET n == Min(size, Numel(v))
    IN  [shape |-> <<Numel(v) - n>>, data |-> SubSeq(v.data, n + 1, Numel(v))]

\* the loop of vec_to_params: param collects the views, v is what is left
RECURSIVE VecToParamsLoop(_, _, _)
VecToParamsLoop(v, ps, param) ==
    IF ps = <<>> THEN Ok(param)
    ELSE LET p == Head(ps)
             size == ViewRows(p, 1).val.shape[2]
             head == SliceTo(v, size)
         IN  IF ~head.ok THEN head
             ELSE LET viewed == View(head.val, p.shape)
                  IN  IF ~viewed.ok THEN viewed
                      ELSE VecToParamsLoop(SliceFrom(v, size), Tail(ps),
                                           Append(param, viewed.val))

vec_to_params(v, ps) == VecToParamsLoop(v, ps, <<>>)

(***************************************************************************)
(* batch_grads_to_vec / batch_vec_to_grads                                 *)
(***************************************************************************)
\* batch_grads_to_vec(parameters): N is the first tensor's leading dimension;
\* every tensor is viewed as (N, -1) and the views concatenated along dim 1
batch_grads_to_vec(ps) ==
    LET N == ps[1].shape[1]
        views == [k \in 1..Len(ps) |-> ViewRows(ps[k], N)]
    IN  IF \E k \in 1..Len(ps) : ~views[k].ok THEN Raise("RuntimeError")
        ELSE Ok(CatDim1([k \in 1..Len(ps) |-> views[k].val]))

\* vec[:, :size] of a 2-dim tensor
ColsTo(m, size) ==
    LET n == Min(size, m.shape[2])
    IN  [shape |-> <<m.shape[1], n>>,
         data |-> Concat([r \in 1..m.shape[1] |-> SubSeq(Row(m, r), 1, n)])]

\* the slip of leaving vec as it is after a tensor has been cut off it
ColsFrom_NoAdvance(m, size) == m

\* vec[:, size:] of a 2-dim tensor
ColsFrom(m, size) ==
    LET n == Min(size, m.shape[2])
    IN  [shape |-> <<m.shape[1], m.shape[2] - n>>,
         data |-> Concat([r \in 1..m.shape[1] |->
                             SubSeq(Row(m, r), n + 1, m.shape[2])])]

\* s.view(shape) of a column slice s of a matrix that is width columns wide:
\* the slice keeps the matrix's row stride, so unless it is contiguous the
\* new shape has to split at the row boundary
ViewCols(s, width, shape) ==
    IF Prod(shape) # Numel(s) THEN Raise("RuntimeError")
    ELSE IF \/ s.shape[1] = 1
            \/ s.shape[2] = width
            \/ \E k \in 0..Len(shape) : Prod(SubSeq(shape, 1, k)) = s.shape[1]
         THEN Ok([shape |-> shape, data |-> s.data])
         ELSE Raise("RuntimeError")

\* the loop of batch_vec_to_grads
RECURSIVE BatchVecToGradsLoop(_, _, _)
BatchVecToGradsLoop(m, ps, grads) ==
    IF ps = <<>> THEN Ok(grads)
    ELSE LET p == Head(ps)
             size == ViewRows(p, p.shape[1]).val.shape[2]
             viewed == ViewCols(ColsTo(m, size), m.shape[2], p.shape)
         IN  IF ~viewed.ok THEN viewed
             ELSE BatchVecToGradsLoop(ColsFrom(m, size), Tail(ps),
                                      Append(grads, viewed.val))

batch_vec_to_grads(m, ps) == BatchVecToGradsLoop(m, ps, <<>>)

(***************************************************************************)
(* Inputs of the vectorization helpers                                     *)
(***************************************************************************)
\* shapes a parameter can have (for a per-example gradient: the dimensions
\* after the example axis)
Shapes == {<<>>, <<1>>, <<2>>, <<3>>, <<1, 1>>, <<1, 2>>, <<2, 1>>, <<2, 2>>,
           <<2, 1, 2>>, <<1, 3, 1>>}

\* the tensors of the given shapes, every element of the list distinct:
\* element i of the list's flattening holds i
RECURSIVE Labelled(_, _)
Labelled(shapes, first) ==
    IF shapes = <<>> THEN <<>>
    ELSE <<[shape |-> Head(shapes),
            data |-> [i \in 1..Prod(Head(shapes)) |-> first + i - 1]]>>
         \o Labelled(Tail(shapes), first + Prod(Head(shapes)))

ShapeLists == UNION {[1..k -> Shapes] : k \in 1..MaxParams}

\* a model's parameters: any non-empty list of tensors
ParamLists == {Labelled(ss, 1) : ss \in ShapeLists}

\* per-example gradients: every tensor has the same leading example count
BatchLists ==
    {Labelled([k \in 1..Len(ss) |-> <<n>> \o ss[k]], 1) :
        ss \in ShapeLists, n \in 1..MaxN}

(***************************************************************************)
(* The round trips: flatten, then unflatten against the same list          *)
(***************************************************************************)
InitVec ==
    /\ \/ pc = "params_to_vec" /\ parameters \in ParamLists
       \/ pc = "batch_grads_to_vec" /\ parameters \in BatchLists
    /\ vec = Unused
    /\ out = Unused
    /\ VecIdle

ParamsToVec ==
    /\ pc = "params_to_vec"
    /\ vec' = params_to_vec(parameters)
    /\ pc' = "vec_to_params"
    /\ UNCHANGED <<parameters, out, vecIdle>>

VecToParams ==
    /\ pc = "vec_to_params"
    /\ out' = vec_to_params(vec, parameters)
    /\ pc' = "params_done"
    /\ UNCHANGED <<parameters, vec, vecIdle>>

BatchGradsToVec ==
    /\ pc = "batch_grads_to_vec"
    /\ vec' = batch_grads_to_vec(parameters).val
    /\ pc' = "batch_vec_to_grads"
    /\ UNCHANGED <<parameters, out, vecIdle>>

BatchVecToGrads ==
    /\ pc = "batch_vec_to_grads"
    /\ out' = batch_vec_to_grads(vec, parameters)
    /\ pc' = "batch_done"
    /\ UNCHANGED <<parameters, vec, vecIdle>>

NextVec == ParamsToVec \/ VecToParams \/ BatchGradsToVec \/ BatchVecToGrads

SpecVec == InitVec /\ [][NextVec]_vars

\* C1: for any model, vec_to_params(params_to_vec(parameters), parameters)
\* returns one tensor per parameter, in order, with the parameter's shape and
\* values, a model with a single element in total included
C1_RoundTrip ==
    pc = "params_done" => out.ok /\ out.val = parameters

\* the round trip is run on a model whose parameters hold one element in total
C1_SingleElement ==
    /\ pc = "params_done"
    /\ SumSeq([k \in 1..Len(parameters) |-> Numel(parameters[k])]) = 1

\* C2: batch_vec_to_grads(batch_grads_to_vec(g), g) equals g entry by entry,
\* and the matrix in between has shape (N, per-example element count), row i
\* holding example i's entries of every tensor in list order
C2_BatchRoundTrip ==
    LET N == parameters[1].shape[1]
        per == [k \in 1..Len(parameters) |-> Numel(parameters[k]) \div N]
        example(k, i) ==
            SubSeq(parameters[k].data, (i - 1) * per[k] + 1, i * per[k])
    IN  /\ pc \in {"batch_vec_to_grads", "batch_done"} =>
              /\ vec.shape = <<N, SumSeq(per)>>
              /\ \A i \in 1..N :
                    Row(vec, i) =
                        Concat([k \in 1..Len(parameters) |-> example(k, i)])
        /\ pc = "batch_done" => out.ok /\ out.val = parameters

\* a batch of several examples and several tensors, one of them with more than
\* one dimension after the example axis, has gone through the round trip
C2_Witness ==
    /\ pc = "batch_done"
    /\ Len(parameters) > 1
    /\ parameters[1].shape[1] > 1
    /\ \E k \in 1..Len(parameters) : Len(parameters[k].shape) > 2

(***************************************************************************)
(* Exact arithmetic: a number is a fraction [n, d] in lowest terms, d > 0  *)
(***************************************************************************)
RECURSIVE GCD(_, _)
GCD(a, b) == IF b = 0 THEN a ELSE GCD(b, a % b)

Abs(a) == IF a < 0 THEN -a ELSE a

Frac(n, d) ==
    LET g == GCD(Abs(n), Abs(d))
        sgn == IF d < 0 THEN -1 ELSE 1
    IN  [n |-> sgn * (n \div g), d |-> sgn * (d \div g)]

Zero == [n |-> 0, d |-> 1]
One == [n |-> 1, d |-> 1]

RAdd(a, b) == Frac(a.n * b.d + b.n * a.d, a.d * b.d)
RMul(a, b) == Frac(a.n * b.n, a.d * b.d)
RDiv(a, b) == Frac(a.n * b.d, a.d * b.n)
RLe(a, b) == a.n * b.d <= b.n * a.d
RGt(a, b) == ~RLe(a, b)

RECURSIVE RSum(_)
RSum(s) == IF s = <<>> THEN Zero ELSE RAdd(Head(s), RSum(Tail(s)))

Isqrt(k) == CHOOSE r \in 0..k : r * r <= k /\ (r + 1) * (r + 1) > k

\* the square root of a fraction whose numerator and denominator are squares
RSqrt(a) == [n |-> Isqrt(a.n), d |-> Isqrt(a.d)]

SumSq(row) == RSum([j \in 1..Len(row) |-> RMul(row[j], row[j])])

(***************************************************************************)
(* clip_and_sum_gradients                                                  *)
(***************************************************************************)
\* grad_vec.norm(2, 1): the L2 norm of every row
RowNorms(m) ==
    [shape |-> <<m.shape[1]>>,
     data |-> [i \in 1..m.shape[1] |-> RSqrt(SumSq(Row(m, i)))]]

\* the slip of scaling by grad_norm / C
Multiplier_Inverted(norm, c) ==
    [shape |-> norm.shape,
     data |-> [i \in 1..Numel(norm) |->
                 IF RGt(norm.data[i], c) THEN RDiv(norm.data[i], c) ELSE One]]

\* multiplier = ones; multiplier[grad_norm.gt(C)] = C / grad_norm[grad_norm.gt(C)]
Multiplier(norm, c) ==
    [shape |-> norm.shape,
     data |-> [i \in 1..Numel(norm) |->
                 IF RGt(norm.data[i], c) THEN RDiv(c, norm.data[i]) ELSE One]]

\* grad_vec *= multiplier.unsqueeze(1): row i is scaled by multiplier[i]
ScaleRows(m, mult) ==
    [shape |-> m.shape,
     data |-> [e \in 1..Numel(m) |->
                 RMul(m.data[e], mult.data[((e - 1) \div m.shape[2]) + 1])]]

\* the slip of averaging the rows
MeanRows(m) ==
    [shape |-> <<m.shape[2]>>,
     data |-> [j \in 1..m.shape[2] |->
                 RDiv(RSum([i \in 1..m.shape[1] |-> Row(m, i)[j]]),
                      Frac(m.shape[1], 1))]]

\* grad_vec.sum(0): the sum of the rows
SumRows(m) ==
    [shape |-> <<m.shape[2]>>,
     data |-> [j \in 1..m.shape[2] |->
                 RSum([i \in 1..m.shape[1] |-> Row(m, i)[j]])]]

\* per-example gradient rows tried: two entries each, with a rational norm
\* (0, 1/2, 1, 2, 5 and 1/2)
ClipRows ==
    {<<Frac(0, 1), Frac(0, 1)>>, <<Frac(0, 1), Frac(1, 2)>>,
     <<Frac(3, 5), Frac(-4, 5)>>, <<Frac(0, 1), Frac(2, 1)>>,
     <<Frac(3, 1), Frac(4, 1)>>, <<Frac(3, 10), Frac(2, 5)>>}

\* the gradient list whose example i flattens to rows[i]: one tensor of
\* shape (N, 2), or a tensor of shape (N, 1, 1) followed by one of shape (N)
GradsOf(rows, layout) ==
    LET N == Len(rows)
    IN  IF layout = 1
        THEN <<[shape |-> <<N, 2>>, data |-> Concat(rows)]>>
        ELSE <<[shape |-> <<N, 1, 1>>, data |-> [i \in 1..N |-> rows[i][1]]],
               [shape |-> <<N>>, data |-> [i \in 1..N |-> rows[i][2]]]>>

ClipInputs ==
    {GradsOf(rows, layout) :
        rows \in UNION {[1..n -> ClipRows] : n \in 1..MaxN}, layout \in {1, 2}}

ClipBounds == {Frac(k, 2) : k \in 1..MaxC}

InitClip ==
    /\ pc = "clip_norm"
    /\ gradients \in ClipInputs
    /\ C \in ClipBounds
    /\ grad_vec = Unused /\ grad_norm = Unused /\ multiplier = Unused
    /\ out = Unused
    /\ ClipIdle

\* grad_vec = batch_grads_to_vec(gradients); grad_norm = grad_vec.norm(2, 1)
ClipNorm ==
    /\ pc = "clip_norm"
    /\ grad_vec' = batch_grads_to_vec(gradients).val
    /\ grad_norm' = RowNorms(grad_vec')
    /\ pc' = "clip_multiplier"
    /\ UNCHANGED <<gradients, C, multiplier, out, clipIdle>>

ClipMultiplier ==
    /\ pc = "clip_multiplier"
    /\ multiplier' = Multiplier(grad_norm, C)
    /\ pc' = "clip_scale"
    /\ UNCHANGED <<gradients, C, grad_vec, grad_norm, out, clipIdle>>

ClipScale ==
    /\ pc = "clip_scale"
    /\ grad_vec' = ScaleRows(grad_vec, multiplier)
    /\ pc' = "clip_sum"
    /\ UNCHANGED <<gradients, C, grad_norm, multiplier, out, clipIdle>>

ClipSum ==
    /\ pc = "clip_sum"
    /\ out' = Ok(SumRows(grad_vec))
    /\ pc' = "clip_done"
    /\ UNCHANGED <<gradients, C, grad_vec, grad_norm, multiplier, clipIdle>>

NextClip == ClipNorm \/ ClipMultiplier \/ ClipScale \/ ClipSum

SpecClip == InitClip /\ [][NextClip]_vars

\* example i's flattened gradient, read off the argument list
ExampleRow(i) ==
    LET N == gradients[1].shape[1]
    IN  Concat([k \in 1..Len(gradients) |->
            LET per == Numel(gradients[k]) \div N
            IN  SubSeq(gradients[k].data, (i - 1) * per + 1, i * per)])

\* C3: once the multiplier is applied and before the rows are summed, every
\* example's row has an L2 norm of at most C (its square is at most C * C)
C3_ClippedNorm ==
    pc = "clip_sum" =>
        \A i \in 1..grad_vec.shape[1] : RLe(SumSq(Row(grad_vec, i)), RMul(C, C))

\* a row longer than C has been scaled, next to one that was left alone
C3_Witness ==
    /\ pc = "clip_sum"
    /\ \E i \in 1..grad_vec.shape[1] : RGt(SumSq(ExampleRow(i)), RMul(C, C))
    /\ \E i \in 1..grad_vec.shape[1] :
          /\ RLe(SumSq(ExampleRow(i)), RMul(C, C))
          /\ SumSq(ExampleRow(i)) # Zero

\* C4: the value returned is the sum over the examples of multiplier_i * row_i,
\* multiplier_i being 1 for a row of norm at most C (0 and C included) and
\* C / norm_i (the non-negative m with m * m * norm_i^2 = C^2) otherwise;
\* norms [1/2, 2, 5] with C = 1 give [1, 1/2, 1/5]; it is a sum, not a mean
C4_ClipAndSum ==
    pc = "clip_done" =>
        LET N == gradients[1].shape[1]
            sq == [i \in 1..N |-> SumSq(ExampleRow(i))]
            m == multiplier.data
        IN  /\ \A i \in 1..N :
                  IF RLe(sq[i], RMul(C, C)) THEN m[i] = One
                  ELSE /\ RLe(Zero, m[i])
                       /\ RMul(RMul(m[i], m[i]), sq[i]) = RMul(C, C)
            /\ out.ok
            /\ out.val.shape = <<2>>
            /\ \A j \in 1..2 :
                  out.val.data[j] =
                      RSum([i \in 1..N |-> RMul(m[i], ExampleRow(i)[j])])
            /\ (C = One /\ sq = <<Frac(1, 4), Frac(4, 1), Frac(25, 1)>>) =>
                  m = <<One, Frac(1, 2), Frac(1, 5)>>

\* the batch of the example has been clipped and summed: norms 1/2, 2 and 5
\* under C = 1
C4_Witness ==
    /\ pc = "clip_done"
    /\ C = One
    /\ gradients[1].shape[1] = 3
    /\ [i \in 1..3 |-> SumSq(ExampleRow(i))] = <<Frac(1, 4), Frac(4, 1), Frac(25, 1)>>
    /\ multiplier.data = <<One, Frac(1, 2), Frac(1, 5)>>

\* a row whose norm is exactly C, and a row of norm 0, are left unchanged
C4_WitnessEdge ==
    /\ pc = "clip_done"
    /\ \E i \in 1..gradients[1].shape[1] :
          SumSq(ExampleRow(i)) = RMul(C, C) /\ multiplier.data[i] = One

(***************************************************************************)
(* add_noisy_gradient                                                      *)
(***************************************************************************)
\* a parameter whose .grad is None
None == [none |-> TRUE]

\* the slip of not zeroing
ZeroGrad_Skip(m) == m

\* model.zero_grad(): every gradient buffer that exists is filled with zeros
ZeroGrad(m) ==
    [k \in 1..Len(m) |->
        IF m[k].grad = None THEN m[k]
        ELSE [m[k] EXCEPT !.grad.data = [i \in 1..Numel(m[k].grad) |-> 0]]]

\* the slip of leaving std out
Noise_NoStd(z, c, sd) == [i \in 1..Len(z) |-> z[i] * c]

\* torch.randn(grad_vec.size()) * C * std, for the draw z of randn
Noise(z, c, sd) == [i \in 1..Len(z) |-> z[i] * c * sd]

\* the slip of leaving grad_perturbed as it is after a parameter is written
RECURSIVE WriteGradsLoop_NoAdvance(_, _, _)
WriteGradsLoop_NoAdvance(m, k, v) ==
    IF k > Len(m) THEN [ok |-> TRUE, model |-> m, rest |-> v]
    ELSE LET size == Prod(m[k].shape)
             viewed == View(SliceTo(v, size).val, m[k].shape)
         IN  IF ~viewed.ok THEN [ok |-> FALSE, model |-> m, rest |-> v]
             ELSE WriteGradsLoop_NoAdvance(
                      [m EXCEPT ![k].grad = viewed.val], k + 1, v)

\* the loop over model.parameters(): parameter k takes the next size elements
\* of v, viewed in its own shape, and v moves on
RECURSIVE WriteGradsLoop(_, _, _)
WriteGradsLoop(m, k, v) ==
    IF k > Len(m) THEN [ok |-> TRUE, model |-> m, rest |-> v]
    ELSE LET size == Prod(m[k].shape)
             viewed == View(SliceTo(v, size).val, m[k].shape)
         IN  IF ~viewed.ok THEN [ok |-> FALSE, model |-> m, rest |-> v]
             ELSE WriteGradsLoop([m EXCEPT ![k].grad = viewed.val], k + 1,
                                 SliceFrom(v, size))

\* the slip of having clf.zero_grad() and the classifier loop outside the if
add_noisy_gradient_AlwaysClf(e, c, g, cb, sd, incl, z) ==
    LET noise == [shape |-> g.shape, data |-> Noise(z, cb, sd)]
        grad_perturbed ==
            [shape |-> g.shape,
             data |-> [i \in 1..Numel(g) |-> g.data[i] + noise.data[i]]]
        we == WriteGradsLoop(ZeroGrad(e), 1, grad_perturbed)
        wc == WriteGradsLoop(ZeroGrad(c), 1, we.rest)
    IN  IF ~we.ok
        THEN [extr |-> we.model, clf |-> c, out |-> Raise("RuntimeError")]
        ELSE [extr |-> we.model, clf |-> wc.model,
              out |-> IF wc.ok THEN Ok(noise) ELSE Raise("RuntimeError")]

\* add_noisy_gradient(extr, clf, device, grad_vec, C, std, include_linear),
\* z being what torch.randn draws: the models as the call leaves them and
\* what it returns
add_noisy_gradient(e, c, g, cb, sd, incl, z) ==
    LET noise == [shape |-> g.shape, data |-> Noise(z, cb, sd)]
        grad_perturbed ==
            [shape |-> g.shape,
             data |-> [i \in 1..Numel(g) |-> g.data[i] + noise.data[i]]]
        we == WriteGradsLoop(ZeroGrad(e), 1, grad_perturbed)
        wc == WriteGradsLoop(ZeroGrad(c), 1, we.rest)
    IN  IF ~we.ok
        THEN [extr |-> we.model, clf |-> c, out |-> Raise("RuntimeError")]
        ELSE IF incl
        THEN [extr |-> we.model, clf |-> wc.model,
              out |-> IF wc.ok THEN Ok(noise) ELSE Raise("RuntimeError")]
        ELSE [extr |-> we.model, clf |-> c, out |-> Ok(noise)]

\* a model with parameters of the given shapes whose gradient buffers are
\* None, or hold what an earlier backward pass left (90, 91, ...)
RECURSIVE ModelOf(_, _, _)
ModelOf(shapes, stale, first) ==
    IF shapes = <<>> THEN <<>>
    ELSE <<[shape |-> Head(shapes),
            grad |-> IF stale
                     THEN [shape |-> Head(shapes),
                           data |-> [i \in 1..Prod(Head(shapes)) |->
                                        first + i - 1]]
                     ELSE None]>>
         \o ModelOf(Tail(shapes), stale, first + Prod(Head(shapes)))

ExtrModels ==
    {ModelOf(ss, st, 90) : ss \in {<<(<<2>>)>>, <<(<<2, 1>>), (<<1>>)>>},
                           st \in BOOLEAN}
ClfModels ==
    {ModelOf(ss, st, 70) : ss \in {<<(<<1>>)>>, <<(<<1, 1>>), (<<>>)>>},
                           st \in BOOLEAN}

\* aggregate gradient vectors: 10, 20, ... (shorter than, as long as and
\* longer than the parameters written)
GradVecs == {[shape |-> <<n>>, data |-> [i \in 1..n |-> 10 * i]] : n \in 1..MaxLen}

\* values one component of torch.randn can take
RandnDraws == {-1, 0, 2}

InitNoise ==
    /\ pc = "add_noisy_gradient"
    /\ extr \in ExtrModels
    /\ clf \in ClfModels
    /\ grad_vec \in GradVecs
    /\ C \in {1, 3}
    /\ std \in 0..MaxStd
    /\ include_linear \in BOOLEAN
    /\ out = Unused
    /\ NoiseIdle

AddNoisyGradient ==
    /\ pc = "add_noisy_gradient"
    /\ \E z \in [1..Numel(grad_vec) -> RandnDraws] :
          LET r == add_noisy_gradient(extr, clf, grad_vec, C, std,
                                      include_linear, z)
          IN  /\ extr' = r.extr
              /\ clf' = r.clf
              /\ out' = r.out
    /\ pc' = "noisy_done"
    /\ UNCHANGED <<grad_vec, C, std, include_linear, noiseIdle>>

NextNoise == AddNoisyGradient

SpecNoise == InitNoise /\ [][NextNoise]_vars

\* C5: with include_linear = False the call leaves every gradient buffer of
\* clf as it was, whatever it held and whatever the length of grad_vec
C5_ClfUntouched ==
    [][(pc = "add_noisy_gradient" /\ ~include_linear) => clf' = clf]_vars

\* the call has run without the classifier, on classifier buffers that held
\* values, and the extractor's buffers were written
C5_Witness ==
    /\ pc = "noisy_done"
    /\ ~include_linear
    /\ out.ok
    /\ \A k \in 1..Len(clf) : clf[k].grad # None
    /\ \A k \in 1..Len(extr) : extr[k].grad # None /\ extr[k].grad.data[1] < 70

\* the gradient buffers the call wrote, flattened in vectorization order
RECURSIVE FlatGrads(_)
FlatGrads(m) ==
    IF m = <<>> THEN <<>> ELSE Head(m).grad.data \o FlatGrads(Tail(m))

Written == IF include_linear THEN extr \o clf ELSE extr

\* C6: a call that returns has given every parameter, the extractor's first
\* and then (with include_linear) the classifier's, the next chunk of
\* grad_vec + noise in its own shape; the written buffers minus grad_vec are
\* the returned noise, and nothing of what the buffers held before is left
C6_WriteBack ==
    (pc = "noisy_done" /\ out.ok) =>
        LET flat == FlatGrads(Written)
        IN  /\ \A k \in 1..Len(Written) :
                  Written[k].grad.shape = Written[k].shape
            /\ Len(flat) <= Numel(grad_vec)
            /\ out.val.shape = grad_vec.shape
            /\ \A i \in 1..Len(flat) :
                  flat[i] - grad_vec.data[i] = out.val.data[i]

\* noise that is not zero was written into extractor and classifier buffers
\* of several parameters that held earlier values
C6_Witness ==
    /\ pc = "noisy_done" /\ out.ok
    /\ include_linear
    /\ Len(extr) > 1 /\ Len(clf) > 1
    /\ \A i \in 1..Numel(out.val) : out.val.data[i] # 0
    /\ FlatGrads(extr \o clf) # SubSeq(grad_vec.data, 1, 5)

\* C7: with std = 0 the returned noise is zero in every component whatever
\* randn draws, and the buffers written hold the chunks of grad_vec itself
C7_ZeroNoise ==
    (pc = "noisy_done" /\ out.ok /\ std = 0) =>
        /\ \A i \in 1..Numel(out.val) : out.val.data[i] = 0
        /\ FlatGrads(Written) = SubSeq(grad_vec.data, 1, Len(FlatGrads(Written)))

\* a call with std = 0 has returned
C7_Witness ==
    /\ pc = "noisy_done" /\ out.ok /\ std = 0
    /\ include_linear
    /\ FlatGrads(Written) = <<10, 20, 30, 40>>

(***************************************************************************)
(* loss_with_reg / compute_full_grad                                       *)
(***************************************************************************)
\* index in the flattened model of the first element of parameter k, less one
Offset(m, k) == SumSeq([j \in 1..(k - 1) |-> Prod(m[j].shape)])

\* loss.backward(): every parameter's gradient buffer accumulates its part
\* of the flat gradient g (a buffer that is None starts from nothing)
Backward(m, g) ==
    [k \in 1..Len(m) |->
        [m[k] EXCEPT !.grad =
            [shape |-> m[k].shape,
             data |-> [i \in 1..Prod(m[k].shape) |->
                         (IF m[k].grad = None THEN 0 ELSE m[k].grad.data[i])
                         + g[Offset(m, k) + i]]]]]

\* the flat gradient of lam * param.pow(2).sum() / 2 over all parameters
RegGrad(m, l) == Concat([k \in 1..Len(m) |->
                    [i \in 1..Prod(m[k].shape) |-> l * m[k].data.data[i]]])

\* loss_with_reg(model, data, target, loss_fn, lam), g being the gradient of
\* loss_fn(model(data), target): the model as the call leaves it
loss_with_reg(m, g, l) ==
    Backward(ZeroGrad(m),
             IF l > 0 THEN [i \in 1..Len(g) |-> g[i] + RegGrad(m, l)[i]]
             ELSE g)

\* grad * data.size(0) / len(data_loader.dataset)
Weighted(grad, size, total) ==
    [shape |-> grad.shape,
     data |-> [i \in 1..Numel(grad) |-> Frac(grad.data[i] * size, total)]]

\* full_grad += w
Accumulate(fg, w) ==
    IF fg = None THEN w
    ELSE [shape |-> fg.shape,
          data |-> [i \in 1..Numel(fg) |-> RAdd(fg.data[i], w.data[i])]]

DatasetLen(dl) == SumSeq([b \in 1..Len(dl) |-> dl[b].size])

\* models of the given shapes: parameter values 1, 2, ..., gradient buffers
\* None or left over from an earlier backward pass (50, 51, ...)
FullModel(shapes, stale) ==
    LET d == Labelled(shapes, 1)
        g == ModelOf(shapes, stale, 50)
    IN  [k \in 1..Len(shapes) |->
            [shape |-> shapes[k], data |-> d[k], grad |-> g[k].grad]]

FullShapes == {<<(<<1>>)>>, <<(<<2, 1>>), (<<>>)>>}

FullModels == {FullModel(ss, st) : ss \in FullShapes, st \in BOOLEAN}

\* a batch: its example count and the flat gradient of its loss at the
\* model's parameters (seed, 2 * seed, ...)
Batches(total) ==
    {[size |-> n, g |-> [i \in 1..total |-> sd * i]] :
        n \in 1..MaxBatch, sd \in {-1, 3}}

Loaders(total) == UNION {[1..k -> Batches(total)] : k \in 1..MaxBatches}

InitFull ==
    /\ pc = "compute_full_grad"
    /\ model \in FullModels
    /\ data_loader \in Loaders(Offset(model, Len(model) + 1))
    /\ lam \in -1..MaxLam
    /\ batch_idx = 0
    /\ full_grad = Unused
    /\ out = Unused
    /\ entry = [k \in 1..Len(model) |-> model[k].grad]
    /\ FullIdle

\* full_grad = None; model.zero_grad()
FullGradStart ==
    /\ pc = "compute_full_grad"
    /\ full_grad' = None
    /\ model' = ZeroGrad(model)
    /\ pc' = "full_loop"
    /\ UNCHANGED <<data_loader, lam, batch_idx, out, entry, fullIdle>>

\* one turn of the loop over data_loader
FullGradBatch ==
    /\ pc = "full_loop"
    /\ batch_idx < Len(data_loader)
    /\ LET b == data_loader[batch_idx + 1]
           m == loss_with_reg(model, b.g, lam)
           grad == params_to_vec([k \in 1..Len(m) |-> m[k].grad])
       IN  /\ full_grad' = Accumulate(full_grad,
                               Weighted(grad, b.size, DatasetLen(data_loader)))
           /\ model' = ZeroGrad(m)
    /\ batch_idx' = batch_idx + 1
    /\ UNCHANGED <<pc, data_loader, lam, out, entry, fullIdle>>

\* param_vec = params_to_vec(model.parameters()); return full_grad, param_vec
FullGradReturn ==
    /\ pc = "full_loop"
    /\ batch_idx = Len(data_loader)
    /\ out' = Ok([full_grad |-> full_grad,
                  param_vec |-> params_to_vec([k \in 1..Len(model) |->
                                                 model[k].data])])
    /\ pc' = "full_done"
    /\ UNCHANGED <<model, data_loader, lam, batch_idx, full_grad, entry,
                   fullIdle>>

NextFull == FullGradStart \/ FullGradBatch \/ FullGradReturn

SpecFull == InitFull /\ [][NextFull]_vars

\* C8: full_grad is the sum over the batches b of (size of b / size of the
\* dataset) * g_b, g_b being the gradient of batch b's loss alone, with the
\* gradient of lam/2 * sum of squared parameters added only when lam > 0:
\* nothing of an earlier batch or of what the buffers held at the call is in
\* it, and a single batch with lam = 0 gives that batch's gradient; the second
\* value is the flattened parameters, which the call leaves as they were
C8_FullGrad ==
    pc = "full_done" =>
        LET total == Offset(model, Len(model) + 1)
            N == DatasetLen(data_loader)
            values == Concat([k \in 1..Len(model) |-> model[k].data.data])
            gb(b, i) == data_loader[b].g[i]
                        + (IF lam > 0 THEN lam * values[i] ELSE 0)
        IN  /\ out.ok
            /\ Numel(out.val.full_grad) = total
            /\ \A i \in 1..total :
                  out.val.full_grad.data[i] =
                      RSum([b \in 1..Len(data_loader) |->
                              RMul(Frac(data_loader[b].size, N), Frac(gb(b, i), 1))])
            /\ (Len(data_loader) = 1 /\ lam = 0) =>
                  \A i \in 1..total :
                      out.val.full_grad.data[i] = Frac(data_loader[1].g[i], 1)
            /\ out.val.param_vec.data = values
            /\ values = [i \in 1..total |-> i]

\* several batches of different sizes were processed with lam > 0 on a model
\* whose buffers held earlier values at the call
C8_Witness ==
    /\ pc = "full_done"
    /\ Len(data_loader) > 1
    /\ data_loader[1].size # data_loader[2].size
    /\ data_loader[1].g # data_loader[2].g
    /\ lam > 0
    /\ Len(model) > 1
    /\ \A k \in 1..Len(model) : entry[k] # None /\ entry[k].data[1] # 0

\* a single batch with lam = 0 was processed on such a model
C8_WitnessSingle ==
    /\ pc = "full_done"
    /\ Len(data_loader) = 1 /\ lam = 0
    /\ \A k \in 1..Len(model) : entry[k] # None /\ entry[k].data[1] # 0

(***************************************************************************)
(* extract_features                                                        *)
(***************************************************************************)
\* torch.cat([a, b], dim=0): both need at least one dimension, the same
\* number of them, and equal sizes after the first
CatDim0(a, b) ==
    IF \/ a.shape = <<>> \/ b.shape = <<>>
       \/ Len(a.shape) # Len(b.shape)
       \/ Tail(a.shape) # Tail(b.shape)
    THEN Raise("RuntimeError")
    ELSE Ok([shape |-> <<a.shape[1] + b.shape[1]>> \o Tail(a.shape),
             data |-> a.data \o b.data])

\* what the extractor computes for example e: width features
FeatureOf(e, width) == [j \in 1..width |-> 10 * e + j]
LabelOf(e) == 100 + e

\* examples before batch b of the stream
Before(dl, b) == SumSeq(SubSeq(dl.sizes, 1, b - 1))

\* extr(data) for batch b: one row of features per example, under the
\* extractor's trailing output shape
Output(dl, b) ==
    [shape |-> <<dl.sizes[b]>> \o dl.tail,
     data |-> Concat([e \in 1..dl.sizes[b] |->
                 FeatureOf(Before(dl, b) + e, Prod(dl.tail))])]

\* the labels of batch b
Target(dl, b) ==
    [shape |-> <<dl.sizes[b]>>,
     data |-> [e \in 1..dl.sizes[b] |-> LabelOf(Before(dl, b) + e)]]

\* data streams: the batch sizes, and the extractor's output shape after the
\* example axis: (width) or (width, 1, 1)
Streams ==
    {[sizes |-> sz, tail |-> tl] :
        sz \in UNION {[1..k -> 1..MaxBatch] : k \in 1..MaxStream},
        tl \in UNION {{<<w>>, <<w, 1, 1>>} : w \in 1..MaxWidth}}

InitExtract ==
    /\ pc = "extract_features"
    /\ data_loader \in Streams
    /\ batch_idx = 0
    /\ features = None
    /\ labels = None
    /\ out = Unused
    /\ ExtractIdle

\* one turn of the loop over data_loader
ExtractBatch ==
    /\ pc = "extract_features"
    /\ batch_idx < Len(data_loader.sizes)
    /\ LET output == Output(data_loader, batch_idx + 1)
           target == Target(data_loader, batch_idx + 1)
       IN  IF features = None
           THEN /\ features' = Squeeze(output)
                /\ labels' = target
                /\ UNCHANGED <<pc, out>>
           ELSE LET f == CatDim0(features, Squeeze(output))
                    l == CatDim0(labels, target)
                IN  IF f.ok
                    THEN /\ features' = f.val
                         /\ labels' = l.val
                         /\ UNCHANGED <<pc, out>>
                    ELSE /\ out' = f
                         /\ pc' = "extract_done"
                         /\ UNCHANGED <<features, labels>>
    /\ batch_idx' = batch_idx + 1
    /\ UNCHANGED <<data_loader, extractIdle>>

\* return features, labels
ExtractReturn ==
    /\ pc = "extract_features"
    /\ batch_idx = Len(data_loader.sizes)
    /\ out' = Ok([features |-> features, labels |-> labels])
    /\ pc' = "extract_done"
    /\ UNCHANGED <<data_loader, batch_idx, features, labels, extractIdle>>

NextExtract == ExtractBatch \/ ExtractReturn

SpecExtract == InitExtract /\ [][NextExtract]_vars

\* C9: whatever the batch sizes (batches of one example included) and the
\* feature width, the call returns features with one entry along the example
\* axis per example of the stream and as many labels, entry i of each
\* belonging to example i
C9_Aligned ==
    pc = "extract_done" =>
        LET total == SumSeq(data_loader.sizes)
            width == Prod(data_loader.tail)
        IN  /\ out.ok
            /\ out.val.labels.shape = <<total>>
            /\ out.val.features.shape # <<>>
            /\ out.val.features.shape[1] = total
            /\ \A i \in 1..total :
                  /\ out.val.labels.data[i] = LabelOf(i)
                  /\ SubSeq(out.val.features.data, (i - 1) * width + 1, i * width)
                        = FeatureOf(i, width)

\* a stream holding a batch of exactly one example has been consumed
C9_SingletonBatch ==
    /\ pc = "extract_done"
    /\ \E b \in 1..Len(data_loader.sizes) : data_loader.sizes[b] = 1

(***************************************************************************)
(* per_example_gradient                                                    *)
(*                                                                         *)
(* The extractor is a sequence of modules; module.expand_func holds a      *)
(* weight of shape (N * out, in, kh, kw) and, unless bias is None, a bias  *)
(* of shape (N * out), N being the batch size.  A batch x is [n, seed]:    *)
(* its size and what stands for its inputs and labels.                     *)
(***************************************************************************)
\* what loss.backward() adds to a buffer of the given shape for batch xb:
\* the gradient of the batch's mean loss
BatchGrad(shape, xb, base) ==
    [i \in 1..Prod(shape) |-> xb.seed * (base + i)]

\* buffer += g (a buffer that is None becomes g)
AccumulateGrad(buf, shape, g) ==
    [shape |-> shape,
     data |-> [i \in 1..Prod(shape) |->
                 (IF buf = None THEN 0 ELSE buf.data[i]) + g[i]]]

\* loss.backward(retain_graph=True) on the extractor's modules
BackwardModules(e, xb) ==
    [k \in 1..Len(e) |->
        [e[k] EXCEPT
            !.weight_grad =
                AccumulateGrad(e[k].weight_grad, e[k].weight_shape,
                               BatchGrad(e[k].weight_shape, xb, 10 * k)),
            !.bias_grad =
                IF e[k].has_bias
                THEN AccumulateGrad(e[k].bias_grad, <<e[k].weight_shape[1]>>,
                                    BatchGrad(<<e[k].weight_shape[1]>>, xb,
                                              10 * k + 5))
                ELSE None]]

\* t * n, elementwise
Times(t, n) ==
    [shape |-> t.shape, data |-> [i \in 1..Numel(t) |-> t.data[i] * n]]

\* the entries one module appends to gradients: weight.grad * N viewed as
\* (N, -1, in, kh, kw), then bias.grad viewed as (N, -1), times N, when the
\* module has a bias
ModuleGradients(md, n) ==
    LET grad == Times(md.weight_grad, n)
        w == [shape |-> <<n, grad.shape[1] \div n>> \o Tail(grad.shape),
              data |-> grad.data]
    IN  IF md.has_bias
        THEN <<w, Times(ViewRows(md.bias_grad, n).val, n)>>
        ELSE <<w>>

\* goodfellow_backprop(activations, torch.autograd.grad(loss, linearCombs)):
\* the classifier's per-example gradients, computed from the graph and not
\* from any gradient buffer
LinearGrads(xb) ==
    <<[shape |-> <<xb.n, 2>>,
       data |-> [i \in 1..(2 * xb.n) |-> xb.seed * (40 + i)]]>>

\* per_example_gradient(extr, clf, x, y, loss_fn, include_linear): the
\* extractor as the call leaves it, and the gradients it returns
per_example_gradient(e, xb, incl) ==
    LET after == BackwardModules(e, xb)
        grads == Concat([k \in 1..Len(after) |-> ModuleGradients(after[k], xb.n)])
    IN  [extr |-> after,
         gradients |-> IF incl THEN grads \o LinearGrads(xb) ELSE grads]

\* an extractor for batches of n examples whose buffers are None (never
\* used) or zero (zeroed by the caller)
PegModule(n, outc, kw, bias, zeroed) ==
    [weight_shape |-> <<n * outc, 1, 1, kw>>,
     has_bias |-> bias,
     weight_grad |-> IF zeroed
                     THEN [shape |-> <<n * outc, 1, 1, kw>>,
                           data |-> [i \in 1..(n * outc * kw) |-> 0]]
                     ELSE None,
     bias_grad |-> IF zeroed /\ bias
                   THEN [shape |-> <<n * outc>>,
                         data |-> [i \in 1..(n * outc) |-> 0]]
                   ELSE None]

PegExtractors(n) ==
    {<<PegModule(n, 1, 2, b1, z)>> : b1 \in BOOLEAN, z \in BOOLEAN}
    \cup {<<PegModule(n, 2, 1, b1, z), PegModule(n, 1, 1, b2, z)>> :
             b1 \in BOOLEAN, b2 \in BOOLEAN, z \in BOOLEAN}

\* what stands for the inputs and labels of a batch
Seeds == {1, 2}

InitPeg ==
    /\ pc = "per_example_gradient"
    /\ \E n \in 1..MaxN :
          /\ extr \in PegExtractors(n)
          /\ x = [n |-> n, seed |-> 1]
    /\ include_linear = FALSE
    /\ gradients = <<>>
    /\ entry = <<>>
    /\ out = Unused
    /\ PegIdle

\* one call, on whatever the buffers hold (calls go on until the first
\* module's buffer has accumulated MaxAccum times the smallest batch gradient)
PerExampleGradient ==
    /\ pc \in {"per_example_gradient", "peg_returned"}
    /\ IF extr[1].weight_grad = None THEN TRUE
       ELSE extr[1].weight_grad.data[1]
                < MaxAccum * BatchGrad(<<1>>, [n |-> 1, seed |-> 1], 10)[1]
    /\ \E sd \in Seeds, incl \in BOOLEAN :
          LET xb == [n |-> x.n, seed |-> sd]
              r == per_example_gradient(extr, xb, incl)
          IN  /\ x' = xb
              /\ include_linear' = incl
              /\ entry' = [k \in 1..Len(extr) |-> extr[k].weight_grad]
              /\ extr' = r.extr
              /\ gradients' = r.gradients
              /\ out' = Ok([loss |-> sd, gradients |-> r.gradients])
    /\ pc' = "peg_returned"
    /\ UNCHANGED pegIdle

NextPeg == PerExampleGradient

SpecPeg == InitPeg /\ [][NextPeg]_vars

\* the extractor with every gradient buffer zeroed
Zeroed(e) ==
    [k \in 1..Len(e) |->
        [e[k] EXCEPT !.weight_grad = None, !.bias_grad = None]]

\* C10: the gradients a call returns are those of its own batch: a call made
\* while the buffers hold what an earlier backward pass accumulated returns
\* what the same call returns on zeroed buffers
C10_CurrentBatchOnly ==
    pc = "peg_returned" =>
        out.val.gradients = per_example_gradient(Zeroed(extr), x, include_linear).gradients

\* a call was made on buffers that an earlier call had filled
C10_SecondCall ==
    /\ pc = "peg_returned"
    /\ \E k \in 1..Len(entry) : entry[k] # None /\ entry[k].data[1] # 0

(***************************************************************************)
(* The module as a whole: any of its functions is called                   *)
(***************************************************************************)
Init ==
    InitVec \/ InitClip \/ InitNoise \/ InitFull \/ InitExtract \/ InitPeg

Next ==
    NextVec \/ NextClip \/ NextNoise \/ NextFull \/ NextExtract \/ NextPeg

Spec == Init /\ [][Next]_vars

====
